---- MODULE Spec2Model ----
(***************************************************************************)
(* Model of package counter (someonegg/counter): the accumulator and the   *)
(* sliding-window counter of counter.go.  One Counter object `c` is driven *)
(* by a caller that invokes the methods of the Counter interface with      *)
(* timestamps and deltas drawn from small sets.  In the sequential         *)
(* specifications every method is one action; `call` holds the invocation  *)
(* that has just run together with its returned count, `old` the counter   *)
(* as it was when that invocation started.  SpecAcc and SpecMutex run two  *)
(* goroutines (`thr`) statement by statement on the accumulator and on the *)
(* sliding window guarded by sync.Mutex (`lock`).                          *)
(***************************************************************************)
EXTENDS Integers, Sequences, FiniteSets, TLC

VARIABLES impl, c, call, old, fill, lock, thr, seen

vars == <<impl, c, call, old, fill, lock, thr, seen>>

(***************************************************************************)
(* Configuration of the counter under test and bounds of the exploration.  *)
(***************************************************************************)
Start == 100
Window == 20
SlotCount == 2

MaxSlot == 3
MaxVal == 90
MaxDebt == 45

Offsets == {0, 7}
Deltas == {-45, 0, 45, 90}
NonNegDeltas == {d \in Deltas : d >= 0}

(***************************************************************************)
(* Go integer arithmetic: / truncates toward zero, % takes the sign of the *)
(* dividend.                                                               *)
(***************************************************************************)
GoDiv(a, b) == IF a >= 0 THEN a \div b ELSE -((-a) \div b)

GoMod(a, b) == a - b * GoDiv(a, b)

Abs(x) == IF x < 0 THEN -x ELSE x

Sign(x) == IF x < 0 THEN -1 ELSE 1

Min(a, b) == IF a < b THEN a ELSE b

RECURSIVE Pow2(_)
Pow2(n) == IF n <= 0 THEN 1 ELSE 2 * Pow2(n - 1)

RECURSIVE Pow2Mod(_, _)
Pow2Mod(n, s) == IF n <= 0 THEN 1 % s ELSE (2 * Pow2Mod(n - 1, s)) % s

RECURSIVE Log2Floor(_)
Log2Floor(k) == IF k < 2 THEN 0 ELSE 1 + Log2Floor(k \div 2)

RECURSIVE BinExp(_, _, _)
BinExp(r, s, e) == IF r * Pow2(e) >= s THEN e ELSE BinExp(r, s, e + 1)

(***************************************************************************)
(* int64(float64(expired) * (float64(rem) / float64(step))) in IEEE-754    *)
(* binary64 with round-to-nearest-even, for |expired|, |rem| < step small. *)
(* The quotient rem/step is rounded to 53 bits: with t = 52 + BinExp the   *)
(* rounded significand is rem*2^t/step rounded to an integer, and          *)
(* rho = rem*2^t mod step tells the direction (rho < step/2: down).  The   *)
(* product is rounded again; it can fall below the exact integer value k   *)
(* only when k = expired*rem/step is an integer, the quotient was rounded  *)
(* down, and the shortfall expired*rho/(step*2^t) exceeds half the spacing *)
(* of the doubles just below k.  The conversion to int64 truncates.        *)
(***************************************************************************)
FloatMulTruncPos(e, r, s) ==
    LET k    == (e * r) \div s
        ex   == BinExp(r, s, 1)
        rho  == (r * Pow2Mod(52 + ex, s)) % s
        b    == Log2Floor(k)
        lim  == s * Pow2(b + ex - 1)
        keep == IF k = Pow2(b) THEN 2 * e * rho <= lim ELSE e * rho <= lim
    IN  IF (e * r) % s # 0 THEN k
        ELSE IF rho = 0 \/ 2 * rho > s THEN k
        ELSE IF keep THEN k ELSE k - 1

FloatMulTrunc(expired, rem, step) ==
    IF expired = 0 \/ rem = 0 THEN 0
    ELSE Sign(expired) * Sign(rem) * FloatMulTruncPos(Abs(expired), Abs(rem), step)

(***************************************************************************)
(* slidingWindow                                                           *)
(***************************************************************************)
newSlidingWindow(start, window, slots) ==
    [start |-> start,
     step  |-> GoDiv(window, slots),
     slots |-> [i \in 1..(slots + 1) |-> 0],
     count |-> 0,
     now   |-> start]

\* len(c.slots); slots[i] of the code is w.slots[i + 1] here
NumSlots(w) == Len(w.slots)

Current(w) ==
    LET current == GoDiv(w.now - w.start, w.step)
    IN  IF current < 0 THEN 0 ELSE current

\* variant of expire: the expiring slots are cleared but stay in count
RECURSIVE expireKeepCount(_, _, _)
expireKeepCount(w, i, next) ==
    IF i > next THEN w
    ELSE expireKeepCount([w EXCEPT !.slots[(i % NumSlots(w)) + 1] = 0], i + 1, next)

\* variant of expire: the loop stops before next (i < next)
RECURSIVE expireBeforeNext(_, _, _)
expireBeforeNext(w, i, next) ==
    IF i >= next THEN w
    ELSE LET C == NumSlots(w)
         IN  expireBeforeNext([w EXCEPT !.count = @ - w.slots[(i % C) + 1],
                                        !.slots[(i % C) + 1] = 0], i + 1, next)

\* the loop of the partial rotation: for i := current + 1; i <= next; i++
RECURSIVE expire(_, _, _)
expire(w, i, next) ==
    IF i > next THEN w
    ELSE LET C == NumSlots(w)
         IN  expire([w EXCEPT !.count = @ - w.slots[(i % C) + 1],
                              !.slots[(i % C) + 1] = 0], i + 1, next)

\* variant of advance: next is not clamped forward to current
advanceNoClamp(w, now, delta) ==
    LET C       == NumSlots(w)
        current == Current(w)
        next0   == GoDiv(now - w.start, w.step)
        next    == IF next0 < 0 THEN 0 ELSE next0
    IN  IF next = current
        THEN [w EXCEPT !.slots[(next % C) + 1] = @ + delta,
                       !.count = @ + delta,
                       !.now = now]
        ELSE IF next - current >= C
        THEN [w EXCEPT !.slots = [i \in 1..C |-> IF i = (next % C) + 1 THEN delta ELSE 0],
                       !.count = delta,
                       !.now = now]
        ELSE LET x == expire(w, current + 1, next)
             IN  [x EXCEPT !.slots[(next % C) + 1] = @ + delta,
                           !.count = @ + delta,
                           !.now = now]

advance(w, now, delta) ==
    LET C       == NumSlots(w)
        current == Current(w)
        next0   == GoDiv(now - w.start, w.step)
        next    == IF next0 < current THEN current ELSE next0
    IN  IF next = current
        THEN [w EXCEPT !.slots[(next % C) + 1] = @ + delta,
                       !.count = @ + delta,
                       !.now = now]
        ELSE IF next - current >= C
        THEN [w EXCEPT !.slots = [i \in 1..C |-> IF i = (next % C) + 1 THEN delta ELSE 0],
                       !.count = delta,
                       !.now = now]
        ELSE LET x == expire(w, current + 1, next)
             IN  [x EXCEPT !.slots[(next % C) + 1] = @ + delta,
                           !.count = @ + delta,
                           !.now = now]

\* variant of revoke: the delta is not clamped to the slot value
revokeNoClamp(w, hist, delta) ==
    LET C       == NumSlots(w)
        current == Current(w)
        prev    == GoDiv(hist - w.start, w.step)
    IN  IF prev >= 0 /\ current - prev >= 0 /\ current - prev < C
        THEN [w EXCEPT !.slots[(prev % C) + 1] = @ - delta,
                       !.count = @ - delta]
        ELSE w

\* variant of revoke: slots that have rotated out are not excluded
revokeAnyAge(w, hist, delta) ==
    LET C       == NumSlots(w)
        current == Current(w)
        prev    == GoDiv(hist - w.start, w.step)
    IN  IF prev >= 0 /\ current - prev >= 0
        THEN LET slot   == w.slots[(prev % C) + 1]
                 reduce == IF delta > slot THEN slot ELSE delta
             IN  [w EXCEPT !.slots[(prev % C) + 1] = @ - reduce,
                           !.count = @ - reduce]
        ELSE w

revoke(w, hist, delta) ==
    LET C       == NumSlots(w)
        current == Current(w)
        prev    == GoDiv(hist - w.start, w.step)
    IN  IF prev >= 0 /\ current - prev >= 0 /\ current - prev < C
        THEN LET slot   == w.slots[(prev % C) + 1]
                 reduce == IF delta > slot THEN slot ELSE delta
             IN  [w EXCEPT !.slots[(prev % C) + 1] = @ - reduce,
                           !.count = @ - reduce]
        ELSE w

calculate(w) ==
    LET C       == NumSlots(w)
        current == GoDiv(w.now - w.start, w.step)
    IN  IF current < 0 THEN w.count
        ELSE w.count - FloatMulTrunc(w.slots[((current + 1) % C) + 1],
                                     GoMod(w.now - w.start, w.step), w.step)

\* variant of zero: the loop stops one slot early
zeroButLast(w) ==
    [w EXCEPT !.slots = [i \in 1..NumSlots(w) |-> IF i < NumSlots(w) THEN 0 ELSE @[i]],
              !.count = 0]

zero(w) == [w EXCEPT !.slots = [i \in 1..NumSlots(w) |-> 0], !.count = 0]

\* variant of duration: the elapsed time is not capped at the window
durationNoCap(w) == w.now - w.start

duration(w) ==
    LET win == w.step * (NumSlots(w) - 1)
        dur == w.now - w.start
    IN  IF dur > win THEN win ELSE dur

radvance(w, now, hist, delta) == advance(revoke(w, hist, delta), now, delta)

RECURSIVE dumpSlots(_, _, _)
dumpSlots(w, i, current) ==
    IF i > current THEN << >>
    ELSE <<w.slots[(i % NumSlots(w)) + 1]>> \o dumpSlots(w, i + 1, current)

\* variant of Dump: begin is one slot too early once the slots have wrapped
DumpOneMore(w) ==
    LET C       == NumSlots(w)
        current == Current(w)
        begin   == IF current >= C THEN current - C ELSE 0
    IN  [start     |-> w.start + begin * w.step,
         end       |-> w.now,
         deltas    |-> dumpSlots(w, begin, current),
         deltaStep |-> w.step]

Dump(w) ==
    LET C       == NumSlots(w)
        current == Current(w)
        begin   == IF current >= C THEN current - (C - 1) ELSE 0
    IN  [start     |-> w.start + begin * w.step,
         end       |-> w.now,
         deltas    |-> dumpSlots(w, begin, current),
         deltaStep |-> w.step]

\* math.Round(float64(a) / float64(b)) for a >= 0, b > 0: half away from zero
RoundDiv(a, b) == (2 * a + b) \div (2 * b)

\* variant of loadSegs: remain is not reduced by the parts already replayed
RECURSIVE loadSegsKeepRemain(_, _, _, _, _, _, _, _)
loadSegsKeepRemain(calls, j, segs, now, end, delta, remain, deltaStep) ==
    IF j >= segs THEN [calls |-> calls, now |-> now, remain |-> remain]
    ELSE IF now >= end THEN [calls |-> calls, now |-> end, remain |-> remain]
    ELSE loadSegsKeepRemain(Append(calls, [now |-> now, delta |-> GoDiv(delta, segs)]),
                            j + 1, segs, now + GoDiv(deltaStep, segs), end, delta,
                            remain, deltaStep)

\* variant of loadSegs: the replay of a slot is not cut short at end
RECURSIVE loadSegsPastEnd(_, _, _, _, _, _, _, _)
loadSegsPastEnd(calls, j, segs, now, end, delta, remain, deltaStep) ==
    IF j >= segs THEN [calls |-> calls, now |-> now, remain |-> remain]
    ELSE loadSegsPastEnd(Append(calls, [now |-> now, delta |-> GoDiv(delta, segs)]),
                         j + 1, segs, now + GoDiv(deltaStep, segs), end, delta,
                         remain - GoDiv(delta, segs), deltaStep)

\* the inner loop of load: for j := 0; j < segs; j++.  calls are the Advance calls
\* made so far for this snapshot slot.
RECURSIVE loadSegs(_, _, _, _, _, _, _, _)
loadSegs(calls, j, segs, now, end, delta, remain, deltaStep) ==
    IF j >= segs THEN [calls |-> calls, now |-> now, remain |-> remain]
    ELSE IF now >= end THEN [calls |-> calls, now |-> end, remain |-> remain]
    ELSE loadSegs(Append(calls, [now |-> now, delta |-> GoDiv(delta, segs)]),
                  j + 1, segs, now + GoDiv(deltaStep, segs), end, delta,
                  remain - GoDiv(delta, segs), deltaStep)

\* the outer loop of load: for i := 0; i < len(deltas); i++.  log[i + 1] are the
\* Advance calls made for deltas[i]; i is the number of slots replayed so far.
RECURSIVE loadFrom(_, _, _, _, _, _)
loadFrom(log, segs, start, end, deltas, deltaStep) ==
    IF Len(log) >= Len(deltas) THEN log
    ELSE LET i     == Len(log)
             delta == deltas[i + 1]
             r     == loadSegs(<< >>, 0, segs, start + i * deltaStep, end, delta, delta,
                               deltaStep)
             now   == IF r.now >= end THEN end ELSE r.now
         IN  loadFrom(Append(log, Append(r.calls, [now |-> now, delta |-> r.remain])),
                      segs, start, end, deltas, deltaStep)

\* the Advance calls load makes on a counter of the given step, per snapshot slot
loadCalls(step, start, end, deltas, deltaStep) ==
    LET r    == RoundDiv(deltaStep, step)
        segs == IF r > 1 THEN r ELSE 1
    IN  loadFrom(<< >>, segs, start, end, deltas, deltaStep)

\* c.Advance for each call of calls, in order: ws[k + 1] is the counter after the
\* first k calls, ws[1] the counter before the first
RECURSIVE advanceAll(_, _)
advanceAll(ws, calls) ==
    IF Len(ws) > Len(calls) THEN ws
    ELSE LET k == Len(ws)
         IN  advanceAll(Append(ws, advance(ws[k], calls[k].now, calls[k].delta)), calls)

\* the Advance calls of every snapshot slot, in order: ws[i + 1] is the counter
\* after the calls for deltas[0..i-1], ws[1] the counter before the first
RECURSIVE advanceSlots(_, _)
advanceSlots(ws, log) ==
    IF Len(ws) > Len(log) THEN ws
    ELSE LET i == Len(ws)
         IN  advanceSlots(Append(ws, advanceAll(<<ws[i]>>, log[i])[Len(log[i]) + 1]), log)

load(w, start, end, deltas, deltaStep) ==
    LET log == loadCalls(w.step, start, end, deltas, deltaStep)
    IN  advanceSlots(<<w>>, log)[Len(log) + 1]

LoadSlidingWindow(start, end, deltas, deltaStep, window, slots) ==
    load(newSlidingWindow(start, window, slots), start, end, deltas, deltaStep)

(***************************************************************************)
(* accumulator                                                             *)
(***************************************************************************)
NewAccumulator(start) == [start |-> start, now |-> 0, count |-> 0]

accAdvance(a, now, delta) == [a EXCEPT !.now = now, !.count = @ + delta]

accRevoke(a, hist, delta) == [a EXCEPT !.count = @ - delta]

\* variant of accRadvance: only the advance half is applied
accRadvanceAdvanceOnly(a, now, hist, delta) == [a EXCEPT !.now = now, !.count = @ + delta]

accRadvance(a, now, hist, delta) == [a EXCEPT !.now = now]

accZero(a) == [a EXCEPT !.count = 0]

accDuration(a) == a.now - a.start

accDump(a) ==
    [start     |-> a.start,
     end       |-> a.now,
     deltas    |-> <<a.count>>,
     deltaStep |-> a.now - a.start]

(***************************************************************************)
(* The Counter interface: state after each method and the count returned.  *)
(***************************************************************************)
SW == "slidingWindow"
ACC == "accumulator"

Count(k, x) == IF k = SW THEN calculate(x) ELSE x.count

AdvanceTo(k, x, now, delta) ==
    IF k = SW THEN advance(x, now, delta) ELSE accAdvance(x, now, delta)

RevokeTo(k, x, hist, delta) ==
    IF k = SW THEN revoke(x, hist, delta) ELSE accRevoke(x, hist, delta)

RadvanceTo(k, x, now, hist, delta) ==
    IF k = SW THEN radvance(x, now, hist, delta) ELSE accRadvance(x, now, hist, delta)

ZeroTo(k, x) == IF k = SW THEN zero(x) ELSE accZero(x)

Duration(k, x) == IF k = SW THEN duration(x) ELSE accDuration(x)

DumpOf(k, x) == IF k = SW THEN Dump(x) ELSE accDump(x)

(***************************************************************************)
(* The caller.                                                             *)
(***************************************************************************)
TimeStep == GoDiv(Window, SlotCount)

Times == {Start + k * TimeStep + o : k \in (-1)..MaxSlot, o \in Offsets}

NoDump == [start |-> 0, end |-> 0, deltas |-> << >>, deltaStep |-> 0]

NoCounter == [start |-> 0, step |-> 0, slots |-> << >>, count |-> 0, now |-> 0]

Idle == [op |-> "none", now |-> 0, hist |-> 0, delta |-> 0, ret |-> 0, dur |-> 0,
         dump |-> NoDump, slots |-> 0, loaded |-> NoCounter, log |-> << >>]

NoThreads == << >>

NoSeen == [newest |-> 0, last |-> << >>, lost |-> {}, inorder |-> TRUE]

InBounds(k, x) ==
    IF k = SW THEN \A i \in 1..NumSlots(x) : -MaxDebt <= x.slots[i] /\ x.slots[i] <= MaxVal
    ELSE -MaxDebt <= x.count /\ x.count <= MaxVal

NoFill == [pc |-> "off", k |-> 0, r |-> 0, d |-> 0, q |-> 0, variant |-> "none"]

Init ==
    /\ impl \in {SW, ACC}
    /\ c = IF impl = SW THEN newSlidingWindow(Start, Window, SlotCount)
           ELSE NewAccumulator(Start)
    /\ call = Idle
    /\ old = c
    /\ fill = NoFill
    /\ lock = 0
    /\ thr = NoThreads
    /\ seen = NoSeen

Advance(now, delta) ==
    /\ call.op = "none"
    /\ c' = AdvanceTo(impl, c, now, delta)
    /\ InBounds(impl, c')
    /\ call' = [Idle EXCEPT !.op = "Advance", !.now = now, !.delta = delta,
                             !.ret = Count(impl, c')]
    /\ old' = c
    /\ UNCHANGED <<impl, fill, lock, thr, seen>>

Revoke(hist, delta) ==
    /\ call.op = "none"
    /\ c' = RevokeTo(impl, c, hist, delta)
    /\ InBounds(impl, c')
    /\ call' = [Idle EXCEPT !.op = "Revoke", !.hist = hist, !.delta = delta,
                             !.ret = Count(impl, c')]
    /\ old' = c
    /\ UNCHANGED <<impl, fill, lock, thr, seen>>

Radvance(now, hist, delta) ==
    /\ call.op = "none"
    /\ c' = RadvanceTo(impl, c, now, hist, delta)
    /\ InBounds(impl, c')
    /\ call' = [Idle EXCEPT !.op = "Radvance", !.now = now, !.hist = hist,
                             !.delta = delta, !.ret = Count(impl, c')]
    /\ old' = c
    /\ UNCHANGED <<impl, fill, lock, thr, seen>>

Zero ==
    /\ call.op = "none"
    /\ c' = ZeroTo(impl, c)
    /\ call' = [Idle EXCEPT !.op = "Zero"]
    /\ old' = c
    /\ UNCHANGED <<impl, fill, lock, thr, seen>>

\* variant of CountCall: the decayed count is stored back into the counter
CountCallSettling ==
    /\ call.op = "none"
    /\ c' = [c EXCEPT !.count = Count(impl, c)]
    /\ call' = [Idle EXCEPT !.op = "Count", !.ret = Count(impl, c)]
    /\ old' = c
    /\ UNCHANGED <<impl, fill, lock, thr, seen>>

CountCall ==
    /\ call.op = "none"
    /\ call' = [Idle EXCEPT !.op = "Count", !.ret = Count(impl, c)]
    /\ old' = c
    /\ UNCHANGED <<impl, c, fill, lock, thr, seen>>

DurationCall ==
    /\ call.op = "none"
    /\ call' = [Idle EXCEPT !.op = "Duration", !.dur = Duration(impl, c)]
    /\ old' = c
    /\ UNCHANGED <<impl, c, fill, lock, thr, seen>>

DumpCall ==
    /\ call.op = "none"
    /\ call' = [Idle EXCEPT !.op = "Dump", !.dump = DumpOf(impl, c)]
    /\ old' = c
    /\ UNCHANGED <<impl, c, fill, lock, thr, seen>>

AdvanceEx(now, delta) ==
    /\ call.op = "none"
    /\ c' = AdvanceTo(impl, c, now, delta)
    /\ InBounds(impl, c')
    /\ call' = [Idle EXCEPT !.op = "AdvanceEx", !.now = now, !.delta = delta,
                             !.ret = Count(impl, c'), !.dur = Duration(impl, c')]
    /\ old' = c
    /\ UNCHANGED <<impl, fill, lock, thr, seen>>

RevokeEx(hist, delta) ==
    /\ call.op = "none"
    /\ c' = RevokeTo(impl, c, hist, delta)
    /\ InBounds(impl, c')
    /\ call' = [Idle EXCEPT !.op = "RevokeEx", !.hist = hist, !.delta = delta,
                             !.ret = Count(impl, c'), !.dur = Duration(impl, c')]
    /\ old' = c
    /\ UNCHANGED <<impl, fill, lock, thr, seen>>

RadvanceEx(now, hist, delta) ==
    /\ call.op = "none"
    /\ c' = RadvanceTo(impl, c, now, hist, delta)
    /\ InBounds(impl, c')
    /\ call' = [Idle EXCEPT !.op = "RadvanceEx", !.now = now, !.hist = hist,
                             !.delta = delta, !.ret = Count(impl, c'),
                             !.dur = Duration(impl, c')]
    /\ old' = c
    /\ UNCHANGED <<impl, fill, lock, thr, seen>>

\* a restart: the counter is replaced by the one loaded from its own snapshot
Reload ==
    /\ call.op = "none"
    /\ impl = SW
    /\ LET d == Dump(c)
       IN  c' = LoadSlidingWindow(d.start, d.end, d.deltas, d.deltaStep, Window, SlotCount)
    /\ call' = [Idle EXCEPT !.op = "Load"]
    /\ old' = c
    /\ UNCHANGED <<impl, fill, lock, thr, seen>>

\* the snapshot of the counter is loaded into a second counter of the same window
\* and the given slot count, which is then queried at the snapshot's end
LoadInto(slots) ==
    /\ call.op = "none"
    /\ impl = SW
    /\ LET d  == Dump(c)
           c2 == LoadSlidingWindow(d.start, d.end, d.deltas, d.deltaStep, Window, slots)
       IN  call' = [Idle EXCEPT !.op = "LoadInto", !.now = d.end, !.dump = d,
                                !.slots = slots, !.loaded = c2,
                                !.log = loadCalls(c2.step, d.start, d.end, d.deltas,
                                                  d.deltaStep),
                                !.ret = calculate(advance(c2, d.end, 0))]
    /\ old' = c
    /\ UNCHANGED <<impl, c, fill, lock, thr, seen>>

\* the call returns to the caller
Return ==
    /\ call.op # "none"
    /\ call' = Idle
    /\ old' = c
    /\ UNCHANGED <<impl, c, fill, lock, thr, seen>>

Next ==
    \/ \E now \in Times, delta \in Deltas : Advance(now, delta)
    \/ \E hist \in Times, delta \in Deltas : Revoke(hist, delta)
    \/ \E now \in Times, hist \in Times, delta \in Deltas : Radvance(now, hist, delta)
    \/ Zero
    \/ CountCall
    \/ Return

Spec == Init /\ [][Next]_vars

\* the same caller, which also restarts the counter from its snapshot
NextLoad ==
    \/ \E now \in Times, delta \in Deltas : Advance(now, delta)
    \/ \E hist \in Times, delta \in Deltas : Revoke(hist, delta)
    \/ \E now \in Times, hist \in Times, delta \in Deltas : Radvance(now, hist, delta)
    \/ Zero
    \/ CountCall
    \/ Reload
    \/ Return

SpecLoad == Init /\ [][NextLoad]_vars

\* the same caller, passing non-negative deltas only
NextNonNeg ==
    \/ \E now \in Times, delta \in NonNegDeltas : Advance(now, delta)
    \/ \E hist \in Times, delta \in NonNegDeltas : Revoke(hist, delta)
    \/ \E now \in Times, hist \in Times, delta \in NonNegDeltas : Radvance(now, hist, delta)
    \/ Zero
    \/ CountCall
    \/ Reload
    \/ Return

SpecNonNeg == Init /\ [][NextNonNeg]_vars

\* a caller passing non-negative deltas that migrates the counter's snapshot to
\* counters of other slot counts
TargetSlots == {1, 2, 3, 4, 6}
ResizeOffsets == {0, 4, 7}
ResizeTimes == {Start + k * TimeStep + o : k \in (-1)..MaxSlot, o \in ResizeOffsets}

NextResize ==
    \/ \E now \in ResizeTimes, delta \in NonNegDeltas : Advance(now, delta)
    \/ \E hist \in ResizeTimes, delta \in NonNegDeltas : Revoke(hist, delta)
    \/ \E now \in ResizeTimes, hist \in Times, delta \in NonNegDeltas :
          Radvance(now, hist, delta)
    \/ Zero
    \/ \E slots \in TargetSlots : LoadInto(slots)
    \/ Return

SpecResize == Init /\ [][NextResize]_vars

\* a caller of the Ex methods and of the read-only methods
NextEx ==
    \/ \E now \in Times, delta \in Deltas : AdvanceEx(now, delta)
    \/ \E hist \in Times, delta \in Deltas : RevokeEx(hist, delta)
    \/ \E now \in Times, hist \in Times, delta \in Deltas : RadvanceEx(now, hist, delta)
    \/ Zero
    \/ CountCall
    \/ DurationCall
    \/ DumpCall
    \/ Return

SpecEx == Init /\ [][NextEx]_vars

(***************************************************************************)
(* Undo.  A caller that may take back an Advance at once: Revoke with the  *)
(* timestamp and delta of the Advance that has just run, before any other  *)
(* call.  `old` stays the counter as it was before that Advance.           *)
(***************************************************************************)
\* variant of Undo: the Revoke is passed a timestamp one step before the Advance's
UndoPrevSlot ==
    /\ call.op = "Advance"
    /\ impl = SW
    /\ c' = revoke(c, call.now - c.step, call.delta)
    /\ InBounds(impl, c')
    /\ call' = [call EXCEPT !.op = "Undo", !.hist = call.now, !.ret = calculate(c')]
    /\ UNCHANGED <<impl, old, fill, lock, thr, seen>>

\* Revoke(t, d) right after Advance(t, d)
Undo ==
    /\ call.op = "Advance"
    /\ impl = SW
    /\ c' = revoke(c, call.now, call.delta)
    /\ InBounds(impl, c')
    /\ call' = [call EXCEPT !.op = "Undo", !.hist = call.now, !.ret = calculate(c')]
    /\ UNCHANGED <<impl, old, fill, lock, thr, seen>>

NextUndo ==
    \/ \E now \in Times, delta \in Deltas : Advance(now, delta)
    \/ \E hist \in Times, delta \in Deltas : Revoke(hist, delta)
    \/ Undo
    \/ Zero
    \/ Return

SpecUndo == Init /\ [][NextUndo]_vars

(***************************************************************************)
(* Retention.  A caller that only adds non-negative deltas and clears the  *)
(* counter; `seen` records the newest timestamp passed so far and, for     *)
(* every slot of the counter, the slot index floor((t - start) / step) of  *)
(* the newest positive delta it holds.                                     *)
(***************************************************************************)
\* the slots that advance(w, now, _) sets to zero before it adds its delta
discarded(w, now) ==
    LET full == [w EXCEPT !.slots = [i \in 1..NumSlots(w) |-> 1], !.count = NumSlots(w)]
    IN  {p \in 1..NumSlots(w) : advance(full, now, 0).slots[p] = 0}

\* the newest of a set of slot indices
newestOf(ks) == {k \in ks : \A j \in ks : j <= k}

\* the slot to which advance(w, now, delta) adds delta
written(w, now) == CHOOSE p \in 1..NumSlots(w) : advance(zero(w), now, 1).slots[p] = 1

InitRetain ==
    /\ impl = SW
    /\ c = newSlidingWindow(Start, Window, SlotCount)
    /\ call = Idle
    /\ old = c
    /\ fill = NoFill
    /\ lock = 0
    /\ thr = NoThreads
    /\ seen = [newest |-> Start, last |-> [p \in 1..NumSlots(c) |-> {}], lost |-> {},
               inorder |-> TRUE]

RetainAdvance(now, delta) ==
    /\ call.op = "none"
    /\ c' = advance(c, now, delta)
    /\ InBounds(impl, c')
    /\ call' = [Idle EXCEPT !.op = "Advance", !.now = now, !.delta = delta,
                             !.ret = calculate(c')]
    /\ old' = c
    /\ LET gone == discarded(c, now)
           k    == (now - c.start) \div c.step
       IN  seen' = [newest  |-> IF now > seen.newest THEN now ELSE seen.newest,
                    last    |-> [p \in 1..NumSlots(c) |->
                                   newestOf((IF p \in gone THEN {} ELSE seen.last[p])
                                            \cup (IF p = written(c, now) /\ delta > 0
                                                  THEN {k} ELSE {}))],
                    lost    |-> UNION {seen.last[p] : p \in gone},
                    inorder |-> seen.inorder /\ now >= c.now]
    /\ UNCHANGED <<impl, fill, lock, thr>>

RetainZero ==
    /\ call.op = "none"
    /\ c' = zero(c)
    /\ call' = [Idle EXCEPT !.op = "Zero"]
    /\ old' = c
    /\ seen' = [seen EXCEPT !.last = [p \in 1..NumSlots(c) |-> {}], !.lost = {}]
    /\ UNCHANGED <<impl, fill, lock, thr>>

NextRetain ==
    \/ \E now \in Times, delta \in NonNegDeltas : RetainAdvance(now, delta)
    \/ RetainZero
    \/ Return

SpecRetain == InitRetain /\ [][NextRetain]_vars

(***************************************************************************)
(* The window-fill scenario of TestSlidingWindow: a fresh counter, one     *)
(* Advance(start + k*step + r, d) per slot k = 0..slots-1, a query one     *)
(* step later and a query a further step + q later.                        *)
(***************************************************************************)
FillConfigs == {[window |-> Window, slots |-> SlotCount],
                [window |-> 60000, slots |-> 60]}
FillDeltas == {0, 10, 45, 90}
FillOffsets(step) == IF step <= 10 THEN 0..(step - 1) ELSE {0, 200, 400, 700}
FillResize == 3

InitFill ==
    /\ impl = SW
    /\ \E cfg \in FillConfigs : c = newSlidingWindow(Start, cfg.window, cfg.slots)
    /\ call = Idle
    /\ old = c
    /\ \E r \in FillOffsets(c.step), q \in FillOffsets(c.step), d \in FillDeltas,
          v \in {"NewSlidingWindow", "NewSlidingWindowNoLock"} :
            /\ r + q < c.step
            /\ fill = [pc |-> "fill", k |-> 0, r |-> r, d |-> d, q |-> q, variant |-> v]
    /\ lock = 0
    /\ thr = NoThreads
    /\ seen = NoSeen

FillCall(now, delta) ==
    /\ c' = advance(c, now, delta)
    /\ call' = [Idle EXCEPT !.op = "Advance", !.now = now, !.delta = delta,
                             !.ret = calculate(c')]
    /\ old' = c
    /\ UNCHANGED <<impl, lock, thr, seen>>

FillSlot ==
    /\ fill.pc = "fill"
    /\ FillCall(c.start + fill.k * c.step + fill.r, fill.d)
    /\ fill' = [fill EXCEPT !.k = @ + 1,
                            !.pc = IF fill.k + 1 = NumSlots(c) - 1 THEN "filled" ELSE "fill"]

FillQuery ==
    /\ fill.pc = "filled"
    /\ FillCall(c.start + (NumSlots(c) - 1) * c.step + fill.r, 0)
    /\ fill' = [fill EXCEPT !.pc = "queried"]

FillQueryLater ==
    /\ fill.pc = "queried"
    /\ FillCall(c.start + NumSlots(c) * c.step + fill.r + fill.q, 0)
    /\ fill' = [fill EXCEPT !.pc = "done"]

\* after the query: Dump, LoadSlidingWindow into FillResize times as many slots, and
\* Advance(now, 0) on the loaded counter
FillLoad ==
    /\ fill.pc = "queried"
    /\ LET d  == Dump(c)
           c2 == LoadSlidingWindow(d.start, d.end, d.deltas, d.deltaStep,
                                   c.step * (NumSlots(c) - 1),
                                   FillResize * (NumSlots(c) - 1))
       IN  call' = [Idle EXCEPT !.op = "LoadInto", !.now = c.now, !.dump = d,
                                !.slots = FillResize * (NumSlots(c) - 1),
                                !.loaded = c2,
                                !.log = loadCalls(c2.step, d.start, d.end, d.deltas,
                                                  d.deltaStep),
                                !.ret = calculate(advance(c2, c.now, 0))]
    /\ old' = c
    /\ fill' = [fill EXCEPT !.pc = "loaded"]
    /\ UNCHANGED <<impl, c, lock, thr, seen>>

NextFill == FillSlot \/ FillQuery \/ FillQueryLater \/ FillLoad

SpecFill == InitFill /\ [][NextFill]_vars

(***************************************************************************)
(* Concurrent callers of one accumulator.  Each goroutine t runs Advance or *)
(* Revoke statement by statement: Advance stores c.now and then adds delta  *)
(* to count with atomic.AddInt64, Revoke only adds -delta.  thr[t].seen is  *)
(* the count when the call started, thr[t].before the count its atomic add  *)
(* found, thr[t].net what the goroutine has added since the last Zero.      *)
(***************************************************************************)
Threads == {1, 2}
MaxCalls == 2
AccTimes == {Start + 7, Start + 10}
AccDeltas == {45, 90}

AccIdle == [pc |-> "idle", op |-> "none", now |-> 0, delta |-> 0, seen |-> 0,
            before |-> 0, ret |-> 0, net |-> 0, calls |-> 0]

InitAcc ==
    /\ impl = ACC
    /\ c = NewAccumulator(Start)
    /\ call = Idle
    /\ old = c
    /\ fill = NoFill
    /\ lock = 0
    /\ thr = [t \in Threads |-> AccIdle]
    /\ seen = NoSeen

\* goroutine t calls Advance(now, delta) or Revoke(now, delta)
AccInvoke(t, op, now, delta) ==
    /\ thr[t].pc = "idle"
    /\ thr[t].calls < MaxCalls
    /\ thr' = [thr EXCEPT ![t] = [@ EXCEPT !.pc = IF op = "Advance" THEN "now" ELSE "add",
                                           !.op = op, !.now = now, !.delta = delta,
                                           !.seen = c.count, !.calls = @ + 1]]
    /\ UNCHANGED <<impl, c, call, old, fill, lock, seen>>

\* c.now = now
AccStoreNow(t) ==
    /\ thr[t].pc = "now"
    /\ c' = [c EXCEPT !.now = thr[t].now]
    /\ thr' = [thr EXCEPT ![t].pc = "add"]
    /\ UNCHANGED <<impl, call, old, fill, lock, seen>>

\* variant of AccAdd: the new count is computed from the count read when the call
\* started and stored back
AccAddFromSeen(t) ==
    /\ thr[t].pc = "add"
    /\ LET d == IF thr[t].op = "Advance" THEN thr[t].delta ELSE -thr[t].delta
       IN  /\ c' = [c EXCEPT !.count = thr[t].seen + d]
           /\ thr' = [thr EXCEPT ![t] = [@ EXCEPT !.pc = "done", !.before = c.count,
                                                  !.ret = c'.count, !.net = @ + d]]
    /\ UNCHANGED <<impl, call, old, fill, lock, seen>>

\* return atomic.AddInt64(&c.count, delta), or -delta for Revoke
AccAdd(t) ==
    /\ thr[t].pc = "add"
    /\ LET d == IF thr[t].op = "Advance" THEN thr[t].delta ELSE -thr[t].delta
       IN  /\ c' = [c EXCEPT !.count = @ + d]
           /\ thr' = [thr EXCEPT ![t] = [@ EXCEPT !.pc = "done", !.before = c.count,
                                                  !.ret = c'.count, !.net = @ + d]]
    /\ UNCHANGED <<impl, call, old, fill, lock, seen>>

AccReturn(t) ==
    /\ thr[t].pc = "done"
    /\ thr' = [thr EXCEPT ![t] = [AccIdle EXCEPT !.net = thr[t].net,
                                                 !.calls = thr[t].calls]]
    /\ UNCHANGED <<impl, c, call, old, fill, lock, seen>>

\* Zero while no Advance or Revoke is running
AccZeroQuiet ==
    /\ \A t \in Threads : thr[t].pc = "idle"
    /\ \E t \in Threads : thr[t].net # 0
    /\ c' = accZero(c)
    /\ thr' = [t \in Threads |-> [thr[t] EXCEPT !.net = 0]]
    /\ UNCHANGED <<impl, call, old, fill, lock, seen>>

NextAcc ==
    \/ \E t \in Threads, op \in {"Advance", "Revoke"}, now \in AccTimes,
          delta \in AccDeltas : AccInvoke(t, op, now, delta)
    \/ \E t \in Threads : AccStoreNow(t)
    \/ \E t \in Threads : AccAdd(t)
    \/ \E t \in Threads : AccReturn(t)
    \/ AccZeroQuiet

SpecAcc == InitAcc /\ [][NextAcc]_vars

(***************************************************************************)
(* Concurrent callers of one sliding window built by NewSlidingWindow (the *)
(* sync.Mutex variant).  Each goroutine t runs a method statement by        *)
(* statement: Lock, the statements of revoke, advance, calculate, duration  *)
(* or of the bodies of Zero and Dump, then the deferred Unlock.  thr[t].at  *)
(* is the counter when t got the lock; `old` is the counter at the last     *)
(* Unlock.                                                                  *)
(***************************************************************************)
MxTimes == {Start + 7, Start + 20, Start + 40}
MxDeltas == {45}
MxOps == {"Advance", "Revoke", "Radvance", "Zero", "Count", "Duration", "Dump"}

MxIdle == [pc |-> "idle", op |-> "none", now |-> 0, hist |-> 0, delta |-> 0,
           next |-> 0, i |-> 0, reduce |-> 0, ret |-> 0, dur |-> 0, dump |-> NoDump,
           at |-> NoCounter, calls |-> 0]

\* the statements executed between Lock and Unlock
MxBody == {"revoke", "revoke_slot", "revoke_count", "advance", "add_slot", "add_count",
           "reset_slot", "set_slot", "set_count", "expire_count", "expire_slot",
           "store_now", "zero_slot", "zero_count", "calculate", "duration", "dump",
           "unlock"}

InitMutex ==
    /\ impl = SW
    /\ c = newSlidingWindow(Start, Window, SlotCount)
    /\ call = Idle
    /\ old = c
    /\ fill = NoFill
    /\ lock = 0
    /\ thr = [t \in Threads |-> MxIdle]
    /\ seen = NoSeen

\* goroutine t calls a method of the counter
MxInvoke(t, op, now, hist, delta) ==
    /\ thr[t].pc = "idle"
    /\ thr[t].calls < MaxCalls
    /\ thr' = [thr EXCEPT ![t] = [@ EXCEPT !.pc = "lock", !.op = op, !.now = now,
                                           !.hist = hist, !.delta = delta,
                                           !.calls = @ + 1]]
    /\ UNCHANGED <<impl, c, call, old, fill, lock, seen>>

\* the first statement of each method after Lock
MxEntry(op) ==
    CASE op = "Advance"  -> "advance"
      [] op = "Revoke"   -> "revoke"
      [] op = "Radvance" -> "revoke"
      [] op = "Zero"     -> "zero_slot"
      [] op = "Count"    -> "calculate"
      [] op = "Duration" -> "duration"
      [] op = "Dump"     -> "dump"

\* variant of MxLock: Lock returns at once, as nopLocker.Lock does
MxLockNop(t) ==
    /\ thr[t].pc = "lock"
    /\ lock' = t
    /\ thr' = [thr EXCEPT ![t] = [@ EXCEPT !.pc = MxEntry(thr[t].op), !.at = c]]
    /\ UNCHANGED <<impl, c, call, old, fill, seen>>

\* PL(&c.l).Lock(): sync.Mutex.Lock returns once the mutex is free
MxLock(t) ==
    /\ thr[t].pc = "lock"
    /\ lock = 0
    /\ lock' = t
    /\ thr' = [thr EXCEPT ![t] = [@ EXCEPT !.pc = MxEntry(thr[t].op), !.at = c]]
    /\ UNCHANGED <<impl, c, call, old, fill, seen>>

\* the statement after revoke: advance for Radvance, calculate for Revoke
MxAfterRevoke(op) == IF op = "Radvance" THEN "advance" ELSE "calculate"

\* revoke: current, prev and the guard; reduce is min(delta, slot)
MxRevoke(t) ==
    /\ thr[t].pc = "revoke"
    /\ LET C       == NumSlots(c)
           current == Current(c)
           prev    == GoDiv(thr[t].hist - c.start, c.step)
           slot    == c.slots[(prev % C) + 1]
       IN  IF prev >= 0 /\ current - prev >= 0 /\ current - prev < C
           THEN thr' = [thr EXCEPT ![t] = [@ EXCEPT !.pc = "revoke_slot", !.i = prev,
                            !.reduce = IF thr[t].delta > slot THEN slot ELSE thr[t].delta]]
           ELSE thr' = [thr EXCEPT ![t].pc = MxAfterRevoke(thr[t].op)]
    /\ UNCHANGED <<impl, c, call, old, fill, lock, seen>>

\* c.slots[prev%C] -= reduce
MxRevokeSlot(t) ==
    /\ thr[t].pc = "revoke_slot"
    /\ c' = [c EXCEPT !.slots[(thr[t].i % NumSlots(c)) + 1] = @ - thr[t].reduce]
    /\ thr' = [thr EXCEPT ![t].pc = "revoke_count"]
    /\ UNCHANGED <<impl, call, old, fill, lock, seen>>

\* c.count -= reduce
MxRevokeCount(t) ==
    /\ thr[t].pc = "revoke_count"
    /\ c' = [c EXCEPT !.count = @ - thr[t].reduce]
    /\ thr' = [thr EXCEPT ![t] = [@ EXCEPT !.pc = MxAfterRevoke(thr[t].op), !.i = 0,
                                           !.reduce = 0]]
    /\ UNCHANGED <<impl, call, old, fill, lock, seen>>

\* advance: current, next and the choice of the path
MxAdvance(t) ==
    /\ thr[t].pc = "advance"
    /\ LET C       == NumSlots(c)
           current == Current(c)
           next0   == GoDiv(thr[t].now - c.start, c.step)
           next    == IF next0 < current THEN current ELSE next0
       IN  thr' = [thr EXCEPT ![t] = [@ EXCEPT
                       !.next = next,
                       !.i    = IF next = current \/ next - current >= C THEN 0
                                ELSE current + 1,
                       !.pc   = IF next = current THEN "add_slot"
                                ELSE IF next - current >= C THEN "reset_slot"
                                ELSE "expire_count"]]
    /\ UNCHANGED <<impl, c, call, old, fill, lock, seen>>

\* quick reset: c.slots[i] = 0; i++
MxResetSlot(t) ==
    /\ thr[t].pc = "reset_slot"
    /\ c' = [c EXCEPT !.slots[thr[t].i + 1] = 0]
    /\ thr' = [thr EXCEPT ![t] = IF thr[t].i + 1 < NumSlots(c)
                                 THEN [@ EXCEPT !.i = @ + 1]
                                 ELSE [@ EXCEPT !.i = 0, !.pc = "set_slot"]]
    /\ UNCHANGED <<impl, call, old, fill, lock, seen>>

\* quick reset: c.slots[next%C] = delta
MxSetSlot(t) ==
    /\ thr[t].pc = "set_slot"
    /\ c' = [c EXCEPT !.slots[(thr[t].next % NumSlots(c)) + 1] = thr[t].delta]
    /\ thr' = [thr EXCEPT ![t].pc = "set_count"]
    /\ UNCHANGED <<impl, call, old, fill, lock, seen>>

\* quick reset: c.count = delta
MxSetCount(t) ==
    /\ thr[t].pc = "set_count"
    /\ c' = [c EXCEPT !.count = thr[t].delta]
    /\ thr' = [thr EXCEPT ![t].pc = "store_now"]
    /\ UNCHANGED <<impl, call, old, fill, lock, seen>>

\* partial rotation: c.count -= c.slots[i%C]
MxExpireCount(t) ==
    /\ thr[t].pc = "expire_count"
    /\ c' = [c EXCEPT !.count = @ - c.slots[(thr[t].i % NumSlots(c)) + 1]]
    /\ thr' = [thr EXCEPT ![t].pc = "expire_slot"]
    /\ UNCHANGED <<impl, call, old, fill, lock, seen>>

\* partial rotation: c.slots[i%C] = 0; i++
MxExpireSlot(t) ==
    /\ thr[t].pc = "expire_slot"
    /\ c' = [c EXCEPT !.slots[(thr[t].i % NumSlots(c)) + 1] = 0]
    /\ thr' = [thr EXCEPT ![t] = IF thr[t].i + 1 <= thr[t].next
                                 THEN [@ EXCEPT !.i = @ + 1, !.pc = "expire_count"]
                                 ELSE [@ EXCEPT !.i = 0, !.pc = "add_slot"]]
    /\ UNCHANGED <<impl, call, old, fill, lock, seen>>

\* c.slots[next%C] += delta
MxAddSlot(t) ==
    /\ thr[t].pc = "add_slot"
    /\ c' = [c EXCEPT !.slots[(thr[t].next % NumSlots(c)) + 1] = @ + thr[t].delta]
    /\ thr' = [thr EXCEPT ![t].pc = "add_count"]
    /\ UNCHANGED <<impl, call, old, fill, lock, seen>>

\* c.count += delta
MxAddCount(t) ==
    /\ thr[t].pc = "add_count"
    /\ c' = [c EXCEPT !.count = @ + thr[t].delta]
    /\ thr' = [thr EXCEPT ![t].pc = "store_now"]
    /\ UNCHANGED <<impl, call, old, fill, lock, seen>>

\* c.now = now
MxStoreNow(t) ==
    /\ thr[t].pc = "store_now"
    /\ c' = [c EXCEPT !.now = thr[t].now]
    /\ thr' = [thr EXCEPT ![t] = [@ EXCEPT !.pc = "calculate", !.next = 0]]
    /\ UNCHANGED <<impl, call, old, fill, lock, seen>>

\* Zero: c.slots[i] = 0; i++
MxZeroSlot(t) ==
    /\ thr[t].pc = "zero_slot"
    /\ c' = [c EXCEPT !.slots[thr[t].i + 1] = 0]
    /\ thr' = [thr EXCEPT ![t] = IF thr[t].i + 1 < NumSlots(c)
                                 THEN [@ EXCEPT !.i = @ + 1]
                                 ELSE [@ EXCEPT !.i = 0, !.pc = "zero_count"]]
    /\ UNCHANGED <<impl, call, old, fill, lock, seen>>

\* Zero: c.count = 0
MxZeroCount(t) ==
    /\ thr[t].pc = "zero_count"
    /\ c' = [c EXCEPT !.count = 0]
    /\ thr' = [thr EXCEPT ![t].pc = "unlock"]
    /\ UNCHANGED <<impl, call, old, fill, lock, seen>>

\* return c.calculate()
MxCalculate(t) ==
    /\ thr[t].pc = "calculate"
    /\ thr' = [thr EXCEPT ![t] = [@ EXCEPT !.pc = "unlock", !.ret = calculate(c)]]
    /\ UNCHANGED <<impl, c, call, old, fill, lock, seen>>

\* return c.duration()
MxDuration(t) ==
    /\ thr[t].pc = "duration"
    /\ thr' = [thr EXCEPT ![t] = [@ EXCEPT !.pc = "unlock", !.dur = duration(c)]]
    /\ UNCHANGED <<impl, c, call, old, fill, lock, seen>>

\* the body of Dump
MxDump(t) ==
    /\ thr[t].pc = "dump"
    /\ thr' = [thr EXCEPT ![t] = [@ EXCEPT !.pc = "unlock", !.dump = Dump(c)]]
    /\ UNCHANGED <<impl, c, call, old, fill, lock, seen>>

\* the deferred PL(&c.l).Unlock(), with which the method returns to its caller
MxUnlock(t) ==
    /\ thr[t].pc = "unlock"
    /\ lock' = 0
    /\ old' = c
    /\ thr' = [thr EXCEPT ![t] = [MxIdle EXCEPT !.calls = thr[t].calls]]
    /\ UNCHANGED <<impl, c, call, fill, seen>>

NextMutex ==
    \/ \E t \in Threads, op \in MxOps, now \in MxTimes, hist \in MxTimes,
          delta \in MxDeltas :
            /\ (op \notin {"Advance", "Radvance"} => now = Start + 7)
            /\ (op \notin {"Revoke", "Radvance"} => hist = Start + 7)
            /\ MxInvoke(t, op, now, hist, delta)
    \/ \E t \in Threads : MxLock(t)
    \/ \E t \in Threads : MxRevoke(t)
    \/ \E t \in Threads : MxRevokeSlot(t)
    \/ \E t \in Threads : MxRevokeCount(t)
    \/ \E t \in Threads : MxAdvance(t)
    \/ \E t \in Threads : MxResetSlot(t)
    \/ \E t \in Threads : MxSetSlot(t)
    \/ \E t \in Threads : MxSetCount(t)
    \/ \E t \in Threads : MxExpireCount(t)
    \/ \E t \in Threads : MxExpireSlot(t)
    \/ \E t \in Threads : MxAddSlot(t)
    \/ \E t \in Threads : MxAddCount(t)
    \/ \E t \in Threads : MxStoreNow(t)
    \/ \E t \in Threads : MxZeroSlot(t)
    \/ \E t \in Threads : MxZeroCount(t)
    \/ \E t \in Threads : MxCalculate(t)
    \/ \E t \in Threads : MxDuration(t)
    \/ \E t \in Threads : MxDump(t)
    \/ \E t \in Threads : MxUnlock(t)

SpecMutex == InitMutex /\ [][NextMutex]_vars

(***************************************************************************)
(* Properties.  Slot indices and windows are stated below with floor       *)
(* division (\div) and the non-negative modulus (%), independently of the  *)
(* Go arithmetic of the methods.                                           *)
(***************************************************************************)
RECURSIVE SumUpTo(_, _)
SumUpTo(f, n) == IF n < 1 THEN 0 ELSE f[n] + SumUpTo(f, n - 1)

SumSlots(w) == SumUpTo(w.slots, Len(w.slots))

Max(a, b) == IF a > b THEN a ELSE b

\* index, counted from start, of the slot that contains timestamp t
SlotIndex(w, t) == (t - w.start) \div w.step

\* position in w.slots of the slot that contains timestamp t
SlotOf(w, t) == (SlotIndex(w, t) % Len(w.slots)) + 1

\* position in w.slots of the current slot: the slot of the stored now, slot 0 at
\* the earliest
CurrentSlot(w) == (Max(SlotIndex(w, w.now), 0) % Len(w.slots)) + 1

\* position in w.slots of the slot after the slot of the stored now
ExpiringSlot(w) == ((SlotIndex(w, w.now) + 1) % Len(w.slots)) + 1

\* t is not before start and its slot is one of the NumSlots(w) newest slots
InWindow(w, t) ==
    /\ t >= w.start
    /\ SlotIndex(w, w.now) - SlotIndex(w, t) \in 0..(Len(w.slots) - 1)

Returning == {"Advance", "Revoke", "Radvance", "Count"}

\* C1: in every reachable state of a sliding window (after any Advance, Revoke,
\* Radvance, Zero or Load) the cached count equals the sum of all slots.
C1_CountIsSumOfSlots == impl = SW => c.count = SumSlots(c)

C1_Witness ==
    /\ impl = SW
    /\ call.op = "Radvance"
    /\ c.count # 0
    /\ c.count # old.count + call.delta
    /\ \E i, j \in 1..Len(c.slots) : i # j /\ c.slots[i] # 0 /\ c.slots[j] # 0

\* C2: every count returned by Advance, Revoke, Radvance and Count of a sliding
\* window is count - floor(expired * ((now - start) mod step) / step), expired being
\* the slot after the current one; stated for non-negative deltas and timestamps
\* that are neither before start nor before the stored now.
C2_ReturnedCountIsFloorDecay ==
    (impl = SW /\ call.op \in Returning /\ old.now >= old.start /\ c.now >= old.now) =>
        LET expired == c.slots[ExpiringSlot(c)]
            rem     == (c.now - c.start) % c.step
        IN  call.ret = c.count - ((expired * rem) \div c.step)

\* C3: for the sliding window and the accumulator, Radvance(now, hist, delta) leaves
\* the counter in the state, and returns the count, of Revoke(hist, delta) followed
\* by Advance(now, delta).
C3_RadvanceIsRevokeThenAdvance ==
    call.op = "Radvance" =>
        LET revoked  == RevokeTo(impl, old, call.hist, call.delta)
            advanced == AdvanceTo(impl, revoked, call.now, call.delta)
        IN  c = advanced /\ call.ret = Count(impl, advanced)

C3_Witness ==
    /\ impl = SW
    /\ call.op = "Radvance"
    /\ call.delta > 0
    /\ InWindow(old, call.hist)
    /\ old.slots[SlotOf(old, call.hist)] > 0
    /\ SlotIndex(old, call.now) > SlotIndex(old, old.now)
    /\ SlotOf(old, call.hist) # SlotOf(old, call.now)
    /\ c.count # old.count

\* C4: with non-negative deltas only, no slot of a sliding window is ever negative,
\* and Revoke(hist, delta) on a slot of the window removes min(delta, slot value)
\* from that slot and from count (a delta above the slot value empties the slot).
C4_RevokeClamps ==
    impl = SW =>
        /\ \A i \in 1..Len(c.slots) : c.slots[i] >= 0
        /\ (call.op = "Revoke" /\ InWindow(old, call.hist)) =>
              LET i == SlotOf(old, call.hist)
                  m == Min(call.delta, old.slots[i])
              IN  /\ c.slots = [old.slots EXCEPT ![i] = @ - m]
                  /\ c.count = old.count - m
                  /\ (call.delta > old.slots[i] =>
                        c.slots[i] = 0 /\ c.count = old.count - old.slots[i])

C4_Witness ==
    /\ impl = SW
    /\ call.op = "Revoke"
    /\ InWindow(old, call.hist)
    /\ old.slots[SlotOf(old, call.hist)] > 0
    /\ call.delta > old.slots[SlotOf(old, call.hist)]
    /\ c.count > 0

\* C5 as stated, for hist not before start and a positive delta: Revoke(hist, delta)
\* changes no slot and not the count whenever now - hist is at least the window
\* length step * slotCount.
C5_NoOpBeyondWindow ==
    (impl = SW /\ call.op = "Revoke" /\ call.hist >= old.start /\ call.delta > 0
        /\ old.now - call.hist >= old.step * ((Len(old.slots) - 1))) =>
            c.slots = old.slots /\ c.count = old.count

\* C5 amended: Revoke(hist, delta) with hist not before start changes no slot and not
\* the count whenever now - hist is at least step * (slotCount + 1).
C5_NoOpBeyondAllSlots ==
    (impl = SW /\ call.op = "Revoke" /\ call.hist >= old.start
        /\ old.now - call.hist >= old.step * Len(old.slots)) =>
            c.slots = old.slots /\ c.count = old.count

C5_Witness ==
    /\ impl = SW
    /\ call.op = "Revoke"
    /\ call.hist >= old.start
    /\ old.now - call.hist >= old.step * Len(old.slots)
    /\ call.delta > 0
    /\ old.slots[SlotOf(old, call.hist)] > 0

\* C6: the stored now of a sliding window never decreases over Advance, Revoke,
\* Radvance and Zero calls, whatever their timestamps.
C6_NowNeverDecreases ==
    (impl = SW /\ call.op \in {"Advance", "Revoke", "Radvance", "Zero"}) =>
        c.now >= old.now

\* C7: Advance(now, delta) with now earlier than the stored now adds delta to the
\* current slot and to count and changes no other slot.
C7_LateAdvanceHitsCurrentSlot ==
    (impl = SW /\ call.op = "Advance" /\ call.now < old.now) =>
        /\ c.slots = [old.slots EXCEPT ![CurrentSlot(old)] = @ + call.delta]
        /\ c.count = old.count + call.delta

C7_Witness ==
    /\ impl = SW
    /\ call.op = "Advance"
    /\ call.now < old.now
    /\ call.now >= old.start
    /\ SlotIndex(old, call.now) < SlotIndex(old, old.now)
    /\ call.delta # 0
    /\ \E i \in 1..Len(old.slots) : i # CurrentSlot(old) /\ old.slots[i] # 0

\* C8: after Advance(now, delta) with now at least (slotCount + 1) * step later than
\* the stored now, the slot of now holds delta, every other slot is 0, count is delta
\* and delta is returned.
C8_FullRotationResets ==
    (impl = SW /\ call.op = "Advance"
        /\ call.now - old.now >= Len(old.slots) * old.step) =>
            /\ c.slots = [i \in 1..Len(old.slots) |->
                            IF i = SlotOf(old, call.now) THEN call.delta ELSE 0]
            /\ c.count = call.delta
            /\ call.ret = call.delta

\* C9: window fill on an empty counter with S slots of step p: after
\* Advance(s + k*p + r, d) for k = 0..S-1, Advance(s + S*p + r, 0) returns
\* S*d - floor(d*r/p), and then Advance(s + (S+1)*p + r + q, 0) returns
\* (S-1)*d - floor(d*(r+q)/p).
C9_WindowFill ==
    LET S == Len(c.slots) - 1
    IN  /\ fill.pc = "queried" =>
              call.ret = S * fill.d - ((fill.d * fill.r) \div c.step)
        /\ fill.pc = "done" =>
              call.ret = (S - 1) * fill.d - ((fill.d * (fill.r + fill.q)) \div c.step)

\* C10: the counter loaded from the Dump of a sliding window, with the same window
\* and slot count, returns the same count as the original for Advance(t, 0) at
\* every t >= end.
C10_DumpLoadRoundTrip ==
    (impl = SW /\ call.op = "Load") =>
        \A t \in Times : t >= old.now =>
            calculate(advance(c, t, 0)) = calculate(advance(old, t, 0))

\* C11 as stated: the counter loaded from the Dump of a sliding window, with the same
\* window and a different slot count, returns for Advance(end, 0) a count that
\* differs from the original's count at that timestamp by at most one unit per
\* snapshot slot.
C11_ResizedCountWithinOnePerSlot ==
    (impl = SW /\ call.op = "LoadInto" /\ call.slots # Len(c.slots) - 1) =>
        Abs(call.ret - calculate(advance(c, call.dump.end, 0))) <= Len(call.dump.deltas)

\* C11 amended: for the filled 60-slot window of the test (60 Advance calls of 10,
\* one per second, on an empty one-minute window, queried one second after the
\* last) loaded into 180 slots, Advance(end, 0) on the loaded counter and on the
\* original differ by at most 1, and both return 596 when the calls are 400 ms
\* into their slots.
C11_TestWindowResized ==
    (impl = SW /\ call.op = "LoadInto" /\ c.step = 1000 /\ fill.d = 10) =>
        LET original == calculate(advance(c, call.dump.end, 0))
        IN  /\ Abs(call.ret - original) <= 1
            /\ fill.r = 400 => call.ret = 596 /\ original = 596

C11_Witness ==
    /\ impl = SW
    /\ call.op = "LoadInto"
    /\ Len(c.slots) = 61
    /\ Len(call.loaded.slots) = 181
    /\ Len(call.dump.deltas) = 61
    /\ fill.d = 10 /\ fill.r = 400
    /\ call.ret = 596

RECURSIVE SumDeltas(_, _)
SumDeltas(calls, n) == IF n < 1 THEN 0 ELSE calls[n].delta + SumDeltas(calls, n - 1)

RECURSIVE SumLog(_, _)
SumLog(log, n) == IF n < 1 THEN 0 ELSE SumDeltas(log[n], Len(log[n])) + SumLog(log, n - 1)

\* C12: during Load, for every snapshot slot and every ratio of deltaStep to the
\* target step, also when the replay is cut short at end, the deltas passed to
\* Advance for the slot sum to the slot's value, so all replayed deltas sum to the
\* sum of the snapshot's deltas.
C12_ReplayPreservesSlotTotals ==
    (impl = SW /\ call.op = "LoadInto") =>
        LET deltas == call.dump.deltas
        IN  /\ Len(call.log) = Len(deltas)
            /\ \A i \in 1..Len(deltas) :
                  SumDeltas(call.log[i], Len(call.log[i])) = deltas[i]
            /\ SumLog(call.log, Len(call.log)) = SumUpTo(deltas, Len(deltas))

\* a slot whose value does not split evenly is replayed in parts and cut short
C12_Witness ==
    /\ impl = SW
    /\ call.op = "LoadInto"
    /\ call.loaded.step < call.dump.deltaStep
    /\ \E i \in 1..Len(call.log) :
          /\ call.dump.deltas[i] % RoundDiv(call.dump.deltaStep, call.loaded.step) # 0
          /\ Len(call.log[i]) > 1
          /\ Len(call.log[i]) < RoundDiv(call.dump.deltaStep, call.loaded.step) + 1
          /\ call.log[i][Len(call.log[i])].now = call.dump.end

\* C13 as stated: in every reachable state of a sliding window the deltas returned
\* by Dump have at most slotCount entries.
C13_DumpAtMostSlotCount ==
    (impl = SW /\ call.op = "Dump") => Len(call.dump.deltas) <= Len(c.slots) - 1

\* C13 amended: the deltas returned by Dump have at most slotCount + 1 entries, one
\* per slot from slot 0 (or from the oldest of the slotCount + 1 newest slots) to the
\* slot of the stored now.
C13_DumpAtMostAllSlots ==
    (impl = SW /\ call.op = "Dump") =>
        /\ Len(call.dump.deltas) <= Len(c.slots)
        /\ Len(call.dump.deltas) = Min(Max(SlotIndex(c, c.now), 0), Len(c.slots) - 1) + 1

C13_Witness ==
    /\ impl = SW
    /\ call.op = "Dump"
    /\ SlotIndex(c, c.now) >= Len(c.slots)
    /\ Len(call.dump.deltas) = Len(c.slots)
    /\ call.dump.deltas[1] > 0

\* C14: sliding-window Dump returns deltaStep = step, end = the stored now, and
\* deltas oldest to newest, deltas[k] being the slot that covers
\* [start + k*deltaStep, start + (k+1)*deltaStep) and the last entry the slot that
\* contains end.
C14_DumpLayout ==
    (impl = SW /\ call.op = "Dump") =>
        LET d == call.dump
            n == Len(d.deltas)
        IN  /\ d.deltaStep = c.step
            /\ d.end = c.now
            /\ \A k \in 0..(n - 1) :
                  d.deltas[k + 1] = c.slots[SlotOf(c, d.start + k * d.deltaStep)]
            /\ d.start + (n - 1) * d.deltaStep <= d.end
            /\ d.end < d.start + n * d.deltaStep

\* C15: sliding-window Zero sets every slot and the cached count to 0 and leaves
\* start, step and the stored now unchanged; Count right after Zero returns 0 and
\* Duration returns what it returned before Zero.
C15_ZeroFrame ==
    (impl = SW /\ call.op = "Zero") =>
        /\ \A i \in 1..Len(c.slots) : c.slots[i] = 0
        /\ Len(c.slots) = Len(old.slots)
        /\ c.count = 0
        /\ c.start = old.start /\ c.step = old.step /\ c.now = old.now
        /\ Count(impl, c) = 0
        /\ Duration(impl, c) = Duration(impl, old)

C15_Witness ==
    /\ impl = SW
    /\ call.op = "Zero"
    /\ old.now > old.start
    /\ (old.now - old.start) % old.step # 0
    /\ \A i \in 1..Len(old.slots) : old.slots[i] > 0
    /\ Count(impl, old) # old.count

ExOps == {"AdvanceEx", "RevokeEx", "RadvanceEx"}

\* C16: sliding-window Duration returns min(stored now - start, step * slotCount),
\* which never exceeds the window length, and the duration returned by AdvanceEx,
\* RevokeEx and RadvanceEx is the one Duration returns on the state they leave.
C16_DurationIsCappedElapsed ==
    impl = SW =>
        LET capped == Min(c.now - c.start, c.step * (Len(c.slots) - 1))
        IN  /\ call.op = "Duration" => call.dur = capped /\ call.dur <= Window
            /\ call.op \in ExOps => call.dur = capped /\ call.dur <= Window

C16_Witness ==
    /\ impl = SW
    /\ call.op \in ExOps
    /\ c.now - c.start > Window
    /\ call.dur = Window

\* C17: Count, Duration and Dump of both implementations change nothing: start,
\* step, every slot, the cached count and the stored now are the same before and
\* after the call.
C17_QueriesAreReadOnly ==
    call.op \in {"Count", "Duration", "Dump"} => c = old

C17_Witness ==
    /\ impl = SW
    /\ call.op = "Count"
    /\ call.ret # c.count
    /\ c = old

\* the counter a method leaves when it runs alone on counter w
MxSequential(op, w, now, hist, delta) ==
    CASE op = "Advance"  -> advance(w, now, delta)
      [] op = "Revoke"   -> revoke(w, hist, delta)
      [] op = "Radvance" -> radvance(w, now, hist, delta)
      [] op = "Zero"     -> zero(w)
      [] OTHER           -> w

\* C18: on the mutex variant of the sliding window concurrent Advance, Revoke,
\* Radvance, Zero, Count, Duration and Dump exclude each other for their whole
\* body: at most one goroutine is between Lock and Unlock; each call starts from
\* the counter the previous call left and leaves, and returns, what it would when
\* run alone on that counter (the calls take effect in the order of their Lock);
\* count = sum(slots) whenever the lock is free; and Dump returns the snapshot of a
\* counter left by a complete call, never of one in the middle of a rotation.
C18_MutexSerializes ==
    /\ Cardinality({t \in Threads : thr[t].pc \in MxBody}) <= 1
    /\ lock = 0 => c = old /\ c.count = SumSlots(c)
    /\ \A t \in Threads :
          /\ thr[t].pc \in MxBody => lock = t /\ thr[t].at = old
          /\ thr[t].pc = "unlock" =>
                LET alone == MxSequential(thr[t].op, thr[t].at, thr[t].now, thr[t].hist,
                                          thr[t].delta)
                IN  /\ c = alone
                    /\ thr[t].op \in Returning => thr[t].ret = calculate(alone)
                    /\ thr[t].op = "Duration" => thr[t].dur = duration(alone)
                    /\ thr[t].op = "Dump" =>
                          /\ thr[t].dump = Dump(thr[t].at)
                          /\ thr[t].at.count = SumSlots(thr[t].at)

\* a Dump waits for the lock while another goroutine is in the middle of a rotation
C18_Witness ==
    \E t, u \in Threads :
        /\ thr[t].pc = "expire_slot"
        /\ c.count # SumSlots(c)
        /\ thr[u].pc = "lock"
        /\ thr[u].op = "Dump"
        /\ lock = t

RECURSIVE SumNet(_)
SumNet(ts) ==
    IF ts = {} THEN 0
    ELSE LET t == CHOOSE x \in ts : TRUE IN thr[t].net + SumNet(ts \ {t})

\* C19: for any interleaving of concurrent Advance and Revoke calls on one
\* accumulator, no update is lost: once all calls have returned count is the sum of
\* the advanced deltas minus the revoked deltas since creation or the last Zero,
\* and each call returns the count its own atomic update produced.
C19_NoLostUpdate ==
    /\ (\A t \in Threads : thr[t].pc = "idle") => c.count = SumNet(Threads)
    /\ \A t \in Threads :
          thr[t].pc = "done" =>
              thr[t].ret = thr[t].before
                           + (IF thr[t].op = "Advance" THEN thr[t].delta ELSE -thr[t].delta)

\* a call whose update landed after another goroutine's, made since it started
C19_Witness ==
    \E t, u \in Threads :
        /\ t # u
        /\ thr[t].pc = "done" /\ thr[t].op = "Advance"
        /\ thr[t].before # thr[t].seen
        /\ thr[u].pc = "done" /\ thr[u].op = "Revoke"
        /\ c.count = SumNet(Threads)
        /\ c.count # 0

\* C20: partial rotation.  Advance(now, delta) that moves a sliding window from slot
\* index current to next with 0 < next - current < slotCount + 1 zeroes the slots
\* current+1..next, taking their values from count, then adds delta to slot next;
\* every other slot keeps its value and slot next holds delta.
C20_PartialRotation ==
    LET C       == Len(old.slots)
        current == Max(SlotIndex(old, old.now), 0)
        next    == SlotIndex(old, call.now)
        expired == {(i % C) + 1 : i \in (current + 1)..next}
        kept    == [i \in 1..C |-> IF i \in expired THEN 0 ELSE old.slots[i]]
    IN  (impl = SW /\ call.op = "Advance" /\ 0 < next - current /\ next - current < C) =>
            /\ c.slots = [kept EXCEPT ![(next % C) + 1] = call.delta]
            /\ c.count = SumUpTo(kept, C) + call.delta
            /\ c.slots[SlotOf(old, call.now)] = call.delta

C20_Witness ==
    /\ impl = SW
    /\ call.op = "Advance"
    /\ SlotIndex(old, call.now) - Max(SlotIndex(old, old.now), 0) = Len(old.slots) - 1
    /\ \A i \in 1..Len(old.slots) : old.slots[i] > 0
    /\ call.delta > 0
    /\ c.count = old.slots[CurrentSlot(old)] + call.delta

\* C21: retention.  A delta added by Advance at time t stays in the counter until a
\* call with a timestamp in slot floor((t - start) / step) + slotCount + 1 or later
\* has been applied: the content that an Advance call discards belongs to slots more
\* than slotCount slots older than the newest timestamp seen so far, whatever the
\* order of the timestamps.
C21_Retention ==
    (impl = SW /\ call.op = "Advance") =>
        \A k \in seen.lost : SlotIndex(c, seen.newest) >= k + (NumSlots(c) - 1) + 1

\* the same for callers whose timestamps never decreased
C21_RetentionInOrder ==
    (impl = SW /\ call.op = "Advance" /\ seen.inorder) =>
        \A k \in seen.lost : SlotIndex(c, seen.newest) >= k + (NumSlots(c) - 1) + 1

\* C22: the deltas returned by the Dump of a sliding window add up to the cached
\* count: every slot with a non-zero value is among the emitted slots.
C22_DumpSumsToCount ==
    (impl = SW /\ call.op = "Dump") =>
        SumUpTo(call.dump.deltas, Len(call.dump.deltas)) = c.count

\* the same for the snapshot of a counter whose caller's timestamps never decreased
C22_DumpSumsToCountInOrder ==
    (impl = SW /\ seen.inorder) =>
        SumUpTo(Dump(c).deltas, Len(Dump(c).deltas)) = c.count

\* C23: undo.  From a sliding window with non-negative slot values, Advance(t, d)
\* with d >= 0 immediately followed by Revoke(t, d) leaves every slot and the count
\* as Advance(t, 0) alone does, for every timestamp t.
C23_UndoAnyTime ==
    (impl = SW /\ call.op = "Undo" /\ call.delta >= 0
        /\ \A i \in 1..Len(old.slots) : old.slots[i] >= 0) =>
            /\ c.slots = advance(old, call.now, 0).slots
            /\ c.count = advance(old, call.now, 0).count

\* C23, amended: the same for timestamps t that are neither earlier than the stored
\* now nor earlier than start; the Revoke then takes d from the slot the Advance
\* wrote.
C23_UndoInOrder ==
    (impl = SW /\ call.op = "Undo" /\ call.delta >= 0
        /\ \A i \in 1..Len(old.slots) : old.slots[i] >= 0
        /\ call.now >= old.now /\ call.now >= old.start) =>
            /\ c.slots = advance(old, call.now, 0).slots
            /\ c.count = advance(old, call.now, 0).count
            /\ c.now = call.now
            /\ SlotOf(c, call.hist) = written(old, call.now)

C23_Witness ==
    /\ impl = SW
    /\ call.op = "Undo"
    /\ call.delta > 0
    /\ \A i \in 1..Len(old.slots) : old.slots[i] >= 0
    /\ call.now >= old.now
    /\ call.now >= old.start
    /\ SlotIndex(old, call.now) > SlotIndex(old, old.now)
    /\ old.slots[SlotOf(old, call.now)] > 0
    /\ c.count > 0

\* C24: with non-negative deltas every count returned by the Advance, Revoke,
\* Radvance and Count of a sliding window is between 0 and the cached count, also
\* after calls with timestamps earlier than start.
C24_ReturnedWithinCount ==
    (impl = SW /\ call.op \in Returning) => (0 <= call.ret /\ call.ret <= c.count)

\* the same while the stored now is not before start
C24_ReturnedWithinCountFromStart ==
    (impl = SW /\ call.op \in Returning /\ c.now >= c.start) =>
        (0 <= call.ret /\ call.ret <= c.count)

\* C25: Revoke(hist, delta) of a sliding window with hist earlier than start, by any
\* amount, changes no slot and leaves the count as it was.
C25_RevokeBeforeStartIsNoOp ==
    (impl = SW /\ call.op = "Revoke" /\ call.hist < old.start) =>
        (c.slots = old.slots /\ c.count = old.count)

\* the same for hist at least one step earlier than start
C25_RevokeStepBeforeStartIsNoOp ==
    (impl = SW /\ call.op = "Revoke" /\ call.hist <= old.start - old.step) =>
        (c.slots = old.slots /\ c.count = old.count)


====
